---- MODULE Spec2Model ----
(***************************************************************************)
(* gridsync: the Watcher of src/gridsync/watcher.py (local-change          *)
(* debouncing, remote-snapshot polling and the sync() reconciliation).     *)
(*                                                                         *)
(* Paths are sequences of components; a component is <<stem, tags>> where  *)
(* tags are the timestamp tags spliced before the extension.  Mtimes are   *)
(* counted in ticks of 1/TicksPerSec second (Python floats), int() is the  *)
(* truncation to whole seconds.  Snapshot names are digit strings compared *)
(* lexicographically.                                                      *)
(***************************************************************************)
EXTENDS Integers, Sequences, FiniteSets, TLC

\* ------------------------------------------------------------------ bounds
TicksPerSec == 2
MaxCalls == 2
MaxSnapshots == 3
MaxWrites == 2
MaxOutages == 1

\* ------------------------------------------------------- paths and strings
Comp(name) == <<name, <<>>>>
Root == Comp("/")
isabs(p) == Len(p) > 0 /\ p[1] = Root
join(a, b) == IF isabs(b) THEN b ELSE a \o b
dirname(p) == SubSeq(p, 1, Len(p) - 1)
IsPrefix(a, b) == Len(a) <= Len(b) /\ SubSeq(b, 1, Len(a)) = a

local_dir == <<Root, Comp("sync")>>
versions_dir == join(local_dir, <<Comp(".gridsync-versions")>>)

\* int(mtime): a float number of seconds truncated to whole seconds
int(m) == m \div TicksPerSec
\* a whole number of seconds as an mtime
secs(s) == s * TicksPerSec
\* t.strftime('.(%Y-%m-%d %H-%M-%S)'): day, hour, minute, second
strftime(sec) == <<sec \div 86400, (sec \div 3600) % 24, (sec \div 60) % 60, sec % 60>>
\* base + tag + extension, (base, extension) = os.path.splitext(filename)
splice(filename, tag) ==
    [filename EXCEPT ![Len(filename)] = <<@[1], Append(@[2], tag)>>]
\* file.split(self.local_dir + os.path.sep)[1]
relpath(file) == SubSeq(file, Len(local_dir) + 1, Len(file))
\* the names of this model that contain the string ".gridsync-versions"
VersionsLike == {".gridsync-versions", ".gridsync-versions.old"}
\* self.versions_dir in file: the path string of versions_dir is a substring
\* of the path string of file
in_versions_dir(file) ==
    /\ IsPrefix(local_dir, file)
    /\ Len(file) > Len(local_dir)
    /\ file[Len(local_dir) + 1][1] \in VersionsLike

\* ------------------------------------------------------- local file system
DirEntry == [type |-> "dir", mtime |-> 0, data |-> <<>>]
FileEntry(m, d) == [type |-> "file", mtime |-> m, data |-> d]
Put(f, k, v) == [x \in DOMAIN f \cup {k} |-> IF x = k THEN v ELSE f[x]]

isdir(f, p) == IsPrefix(p, local_dir) \/ (p \in DOMAIN f /\ f[p].type = "dir")
Ancestors(p) == {SubSeq(p, 1, k) : k \in (Len(local_dir) + 1)..Len(p)}
makedirs_ok(f, p) ==
    /\ p \notin DOMAIN f
    /\ IsPrefix(local_dir, p) /\ p # local_dir
    /\ \A q \in Ancestors(p) : q \in DOMAIN f => f[q].type = "dir"
makedirs(f, p) ==
    [x \in DOMAIN f \cup Ancestors(p) |-> IF x \in DOMAIN f THEN f[x] ELSE DirEntry]
copy2_ok(f, src, dst) ==
    /\ src \in DOMAIN f /\ f[src].type = "file"
    /\ src # dst
    /\ isdir(f, dirname(dst))
    /\ ~(dst \in DOMAIN f /\ f[dst].type = "dir")
copy2(f, src, dst) == Put(f, dst, f[src])

get_local_metadata(f) ==
    [p \in DOMAIN f |->
        IF f[p].type = "dir"
        THEN [isfile |-> FALSE, mtime |-> 0, size |-> 0]
        ELSE [isfile |-> TRUE, mtime |-> f[p].mtime, size |-> Len(f[p].data)]]

versioned_filepath(filename, mtime) ==
    join(versions_dir, splice(filename, strftime(mtime)))
create_versioned_copy_ok(f, filename, mtime) ==
    LET dst == versioned_filepath(filename, mtime)
        g == IF isdir(f, dirname(dst)) THEN f ELSE makedirs(f, dirname(dst))
    IN  /\ isdir(f, dirname(dst)) \/ makedirs_ok(f, dirname(dst))
        /\ copy2_ok(g, join(local_dir, filename), dst)
create_versioned_copy(f, filename, mtime) ==
    LET dst == versioned_filepath(filename, mtime)
        g == IF isdir(f, dirname(dst)) THEN f ELSE makedirs(f, dirname(dst))
    IN  copy2(g, join(local_dir, filename), dst)

\* ------------------------------------------------------------ remote store
DirNode == [type |-> "dirnode", mtime |-> 0, data |-> <<>>]
FileNode(m, d) == [type |-> "filenode", mtime |-> m, data |-> d]

\* the name the store gives its n-th snapshot: a fixed-width digit string
SnapId(n) == <<n \div 10, n % 10>>
Unset == <<>>
RECURSIVE LexLess(_, _)
LexLess(a, b) ==
    IF b = <<>> THEN FALSE
    ELSE IF a = <<>> THEN TRUE
    ELSE IF a[1] # b[1] THEN a[1] < b[1]
    ELSE LexLess(Tail(a), Tail(b))
children(arch) == {SnapId(i) : i \in 1..Len(arch)}
\* the listing of the namespace answers, and snapshots[-1:][0] has an element
listing_ok(exists, names) == exists /\ names # {}
get_latest_snapshot_ok(ok, arch) == listing_ok(ok /\ Len(arch) > 0, children(arch))
\* the number a digit string denotes
RECURSIVE NumVal(_)
NumVal(a) == IF a = <<>> THEN 0 ELSE 10 * NumVal(SubSeq(a, 1, Len(a) - 1)) + a[Len(a)]
\* the greatest name when the names are compared as numbers
latest_numeric(names) ==
    CHOOSE s \in names : \A o \in names : NumVal(o) <= NumVal(s)
\* snapshots.sort(); snapshots[-1:][0]
latest_of(names) ==
    CHOOSE s \in names : \A o \in names : ~LexLess(s, o)
get_latest_snapshot(arch) == latest_of(children(arch))

\* a snapshot of the archive: its tree, and (history) who uploaded it
Snapshot(tree, by) == [tree |-> tree, by |-> by]
\* tahoe.backup(local_dir, remote_dircap): the whole local tree as a snapshot
backup_tree(f) ==
    [r \in {relpath(p) : p \in DOMAIN f} |->
        LET e == f[join(local_dir, r)]
        IN  IF e.type = "dir" THEN DirNode ELSE FileNode(e.mtime, e.data)]
\* tahoe.get_metadata(remote_path): 'Latest' is the most recent snapshot
get_metadata_ok(ok, arch, latest, snap) ==
    ok /\ (IF latest THEN Len(arch) > 0 ELSE snap \in children(arch))
get_metadata(arch, latest, snap) ==
    IF latest THEN arch[Len(arch)].tree
    ELSE arch[CHOOSE i \in 1..Len(arch) : SnapId(i) = snap].tree
\* tahoe.get(uri, file, mtime): write the content, set the mtime
get_ok(ok, f, file) ==
    ok /\ isdir(f, dirname(file)) /\ ~(file \in DOMAIN f /\ f[file].type = "dir")
get(f, data, file, mtime) == Put(f, file, FileEntry(mtime, data))

Threads == {"reactor", "w1", "w2"}
Workers == Threads \ {"reactor"}
\* the order in which the pool hands out its free threads
ThreadBefore(a, b) == a = "w1" /\ b = "w2"

VARIABLES
    fs,               \* the local tree: absolute path -> entry
    archives,         \* the remote "Archives" namespace, oldest first
    sync_state,       \* tahoe.parent.sync_state
    do_backup,        \* Watcher.do_backup
    local_snapshot,   \* Watcher.local_snapshot (Unset: no such attribute)
    latest_snapshot,  \* Watcher.latest_snapshot (Unset: no such attribute)
    th,               \* per thread: position and locals of what it runs
    timers,           \* observer, local_checker, remote_checker running;
                      \* stopped
    dirtied,          \* history: the sleeping threads a change event reached
    outages,          \* how many calls of the remote store have failed
    pre,              \* history: tree and archive at the last explicit call
    calls,            \* history: the explicit sync calls made
    probe,            \* history: the last single call made of a method of
                      \* the Watcher, its argument and its outcome
    writes,           \* history: the local changes made by the user; burst: made
                      \* while the flag or a debounce check of an earlier one waits
    logs,             \* the StreamedLogs service of the application
    bridge            \* the Bridge of the application and the ports it made
vars == <<fs, archives, sync_state, do_backup, local_snapshot,
          latest_snapshot, th, timers, dirtied, outages, pre, calls, probe,
          writes, logs, bridge>>

IdleThread ==
    [pc |-> "idle", ctx |-> "none", latest |-> TRUE, snap |-> Unset,
     skip |-> FALSE, cnt |-> 0, lmeta |-> <<>>, rmeta |-> <<>>,
     todo |-> {}, cur |-> <<>>, owed |-> FALSE, made |-> Unset]
\* (cnt: the loaded counter; owed: sync's local do_backup; made: history, the
\* snapshot this thread's backup produced)
\* (stopped: history, stop() has returned)
Stopped == [observer |-> FALSE, local_checker |-> FALSE,
            remote_checker |-> FALSE, stopped |-> FALSE]
Running == [observer |-> TRUE, local_checker |-> TRUE,
            remote_checker |-> TRUE, stopped |-> FALSE]

\* self.sync(snapshot, skip_comparison) entered by thread t
sync(t, ctx, latest, snap, skip) ==
    [IdleThread EXCEPT !.pc = "inc_load", !.ctx = ctx, !.latest = latest,
                       !.snap = snap, !.skip = skip]

Step(t, r) == th' = [th EXCEPT ![t] = r] /\ UNCHANGED timers
\* sync returns to its caller
Return(t) ==
    LET r == th[t] IN
    /\ th' = [th EXCEPT ![t] =
                IF r.ctx = "manual" THEN [r EXCEPT !.pc = "done"] ELSE IdleThread]
    /\ timers' = IF r.ctx = "start" THEN Running ELSE timers
\* an exception leaves sync: a worker thread ends, a LoopingCall stops,
\* start() is left before the observer and the timers are started
Raise(t) ==
    LET r == th[t] IN
    /\ th' = [th EXCEPT ![t] =
                IF r.ctx = "manual" THEN [r EXCEPT !.pc = "failed"] ELSE IdleThread]
    /\ timers' = IF r.ctx = "poll" THEN [timers EXCEPT !.remote_checker = FALSE]
                 ELSE timers

\* ----------------------------------------------------------------- sync()
remoteVars == <<archives, outages>>
attrVars == <<sync_state, local_snapshot, latest_snapshot>>
otherVars == <<logs, bridge>>
histVars == <<pre, calls, writes, probe, otherVars>>

\* what the remote store does with one call: it answers, or the call raises
Answers == IF outages < MaxOutages THEN {TRUE, FALSE} ELSE {TRUE}
answered(ok) == outages' = IF ok THEN outages ELSE outages + 1
flagVars == <<do_backup, dirtied>>

\* PatternMatchingEventHandler(ignore_patterns=["*.gridsync-versions*"])
ignored(path) == \E i \in 1..Len(path) : path[i][1] \in VersionsLike
Sleeping == {w \in Threads : th[w].pc = "sleep"}
\* PatternMatchingEventHandler.dispatch of an event: events of ignored paths
\* are dropped, on_modified is the only handler the Watcher overrides
\* (on_created, on_deleted and on_moved do nothing).  on_modified(path) is
\* the event of a change of `path` that the observer delivers while it runs.
dispatch(kind, path) ==
    IF kind = "modified" /\ ~ignored(path)
    THEN do_backup' = TRUE /\ dirtied' = dirtied \cup Sleeping
    ELSE UNCHANGED flagVars
on_modified(path) ==
    IF timers.observer THEN dispatch("modified", path) ELSE UNCHANGED flagVars

dirnodes(m) == {p \in DOMAIN m : m[p].type = "dirnode"}
filenodes(m) == {p \in DOMAIN m : m[p].type = "filenode"}
\* The file loop takes the remote file entries in the order of the metadata
\* dict, which the remote listing decides.  Entries that need no file
\* operation (local newer: do_backup = True; equal seconds: up to date) change
\* only locals of sync, so they are accounted for when the loop ends.
\* the comparison made on the mtimes as they are, without int()
remote_newer_raw(r, f) ==
    r.rmeta[f].mtime > r.lmeta[join(local_dir, f)].mtime
\* the comparison widened by a difference of the sizes
remote_newer_or_resized(r, f) ==
    \/ int(r.rmeta[f].mtime) > int(r.lmeta[join(local_dir, f)].mtime)
    \/ /\ int(r.rmeta[f].mtime) = int(r.lmeta[join(local_dir, f)].mtime)
       /\ Len(r.rmeta[f].data) # r.lmeta[join(local_dir, f)].size
\* "if remote_mtime > local_mtime", both truncated by int()
remote_newer(r, f) ==
    int(r.rmeta[f].mtime) > int(r.lmeta[join(local_dir, f)].mtime)
\* entries of the file loop that copy or download
acting(r) ==
    {f \in filenodes(r.rmeta) :
        LET file == join(local_dir, f)
        IN  \/ file \notin DOMAIN r.lmeta
            \/ /\ r.lmeta[file].isfile
               /\ remote_newer(r, f)}
\* the file loop without its "elif remote_mtime < local_mtime" branch
local_newer_never(r) == FALSE
\* "elif remote_mtime < local_mtime: do_backup = True" for some entry
local_newer(r) ==
    \E f \in filenodes(r.rmeta) :
        /\ join(local_dir, f) \in DOMAIN r.lmeta
        /\ int(r.rmeta[f].mtime) < int(r.lmeta[join(local_dir, f)].mtime)
\* local_metadata[file]['mtime'] of a directory: KeyError
key_error(r) ==
    \E f \in filenodes(r.rmeta) :
        /\ join(local_dir, f) \in DOMAIN r.lmeta
        /\ ~r.lmeta[join(local_dir, f)].isfile

\* the directory loop left at once, whatever is left to create
after_dirs_skips(r, left) ==
    IF acting(r) # {}
    THEN [r EXCEPT !.pc = "files", !.todo = acting(r)]
    ELSE [r EXCEPT !.pc = "backup", !.todo = {}]
\* the position after the directory loop, and after the file loop
after_dirs(r, left) ==
    IF left # {} THEN [r EXCEPT !.todo = left]
    ELSE IF acting(r) # {}
         THEN [r EXCEPT !.pc = "files", !.todo = acting(r)]
         ELSE [r EXCEPT !.pc = "backup", !.todo = {}]
after_file(r, left) ==
    IF left # {} THEN [r EXCEPT !.pc = "files", !.todo = left, !.cur = <<>>]
    ELSE [r EXCEPT !.pc = "backup", !.todo = {}, !.cur = <<>>]

\* self.tahoe.parent.sync_state += 1 : the load
sync_inc_load(t) ==
    /\ th[t].pc = "inc_load"
    /\ Step(t, [th[t] EXCEPT !.pc = "inc_store", !.cnt = sync_state])
    /\ UNCHANGED <<fs, flagVars, remoteVars, attrVars, histVars>>

\* the store, followed by the comparison whatever skip_comparison is
sync_inc_store_compares(t) ==
    /\ th[t].pc = "inc_store"
    /\ sync_state' = th[t].cnt + 1
    /\ Step(t, [th[t] EXCEPT !.pc = "scan"])
    /\ UNCHANGED <<fs, flagVars, remoteVars, local_snapshot,
                   latest_snapshot, histVars>>
\* self.tahoe.parent.sync_state += 1 : the store
sync_inc_store(t) ==
    /\ th[t].pc = "inc_store"
    /\ sync_state' = th[t].cnt + 1
    /\ Step(t, [th[t] EXCEPT !.pc = IF th[t].skip THEN "skip_backup" ELSE "scan"])
    /\ UNCHANGED <<fs, flagVars, remoteVars, local_snapshot,
                   latest_snapshot, histVars>>

\* skip_comparison: ls_json, then tahoe.backup of the whole local tree
sync_skip_backup_upto(t, most) ==
    /\ th[t].pc = "skip_backup"
    /\ \E ok \in Answers :
         /\ answered(ok)
         /\ IF ok
            THEN /\ Len(archives) < most
                 /\ archives' = Append(archives, Snapshot(backup_tree(fs), "self"))
                 /\ Step(t, [th[t] EXCEPT !.pc = "skip_latest",
                                          !.made = SnapId(Len(archives) + 1)])
            ELSE /\ Raise(t)
                 /\ UNCHANGED archives
    /\ UNCHANGED <<fs, flagVars, attrVars, histVars>>
sync_skip_backup(t) == sync_skip_backup_upto(t, MaxSnapshots)

\* skip_comparison: self.latest_snapshot = self.get_latest_snapshot()
sync_skip_latest(t) ==
    /\ th[t].pc = "skip_latest"
    /\ \E ok \in Answers :
         /\ answered(ok)
         /\ IF get_latest_snapshot_ok(ok, archives)
            THEN /\ latest_snapshot' = get_latest_snapshot(archives)
                 /\ Step(t, [th[t] EXCEPT !.pc = "dec_load"])
            ELSE /\ Raise(t)
                 /\ UNCHANGED latest_snapshot
    /\ UNCHANGED <<fs, flagVars, archives, sync_state, local_snapshot, histVars>>

\* ls_json, then local_metadata = self.get_local_metadata(self.local_dir)
sync_scan(t) ==
    /\ th[t].pc = "scan"
    /\ \E ok \in Answers :
         /\ answered(ok)
         /\ IF ok
            THEN Step(t, [th[t] EXCEPT !.pc = "getmeta",
                                       !.lmeta = get_local_metadata(fs)])
            ELSE Raise(t)
    /\ UNCHANGED <<fs, flagVars, archives, attrVars, histVars>>

\* remote_metadata = self.tahoe.get_metadata(remote_path, metadata={})
sync_get_metadata(t) ==
    /\ th[t].pc = "getmeta"
    /\ \E ok \in Answers :
         /\ answered(ok)
         /\ IF get_metadata_ok(ok, archives, th[t].latest, th[t].snap)
            THEN LET m == get_metadata(archives, th[t].latest, th[t].snap)
                 IN  Step(t, after_dirs([th[t] EXCEPT !.pc = "dirs", !.rmeta = m],
                                        dirnodes(m)))
            ELSE Raise(t)
    /\ UNCHANGED <<fs, flagVars, archives, attrVars, histVars>>

\* the directory loop: os.makedirs for a remote directory missing locally
sync_makedirs(t) ==
    /\ th[t].pc = "dirs"
    /\ \E d \in th[t].todo :
         LET dirpath == join(local_dir, d)
             next == after_dirs(th[t], th[t].todo \ {d})
         IN  IF isdir(fs, dirpath)
             THEN Step(t, next) /\ UNCHANGED <<fs, flagVars>>
             ELSE IF makedirs_ok(fs, dirpath)
             THEN /\ fs' = makedirs(fs, dirpath)
                  /\ on_modified(dirpath)
                  /\ Step(t, next)
             ELSE Raise(t) /\ UNCHANGED <<fs, flagVars>>
    /\ UNCHANGED <<remoteVars, attrVars, histVars>>

\* the file loop, remote newer: self._create_versioned_copy(file, local_mtime)
sync_versioned_copy(t) ==
    /\ th[t].pc = "files"
    /\ \E f \in th[t].todo :
         LET file == join(local_dir, f)
             r == th[t]
         IN  /\ file \in DOMAIN r.lmeta
             /\ r.lmeta[file].isfile
             /\ remote_newer(r, f)
             /\ LET local_mtime == int(r.lmeta[file].mtime)
                IN  IF create_versioned_copy_ok(fs, file, local_mtime)
                    THEN /\ fs' = create_versioned_copy(fs, file, local_mtime)
                         /\ on_modified(versioned_filepath(file, local_mtime))
                         /\ Step(t, [r EXCEPT !.pc = "get", !.cur = f])
                    ELSE Raise(t) /\ UNCHANGED <<fs, flagVars>>
    /\ UNCHANGED <<remoteVars, attrVars, histVars>>

\* the file loop, remote newer: self.tahoe.get(metadata['uri'], file, remote_mtime)
sync_get(t) ==
    /\ th[t].pc = "get"
    /\ LET r == th[t]
           f == r.cur
           file == join(local_dir, f)
           remote_mtime == int(r.rmeta[f].mtime)
       IN  \E ok \in Answers :
             /\ answered(ok)
             /\ IF get_ok(ok, fs, file)
                THEN /\ fs' = get(fs, r.rmeta[f].data, file, secs(remote_mtime))
                     /\ on_modified(file)
                     /\ Step(t, after_file(r, r.todo \ {f}))
                ELSE Raise(t) /\ UNCHANGED <<fs, flagVars>>
    /\ UNCHANGED <<archives, attrVars, histVars>>

\* the file loop, local is missing: tahoe.get(metadata['uri'], file, metadata['mtime'])
sync_get_missing(t) ==
    /\ th[t].pc = "files"
    /\ \E f \in th[t].todo :
         LET file == join(local_dir, f)
             r == th[t]
         IN  /\ file \notin DOMAIN r.lmeta
             /\ \E ok \in Answers :
                  /\ answered(ok)
                  /\ IF get_ok(ok, fs, file)
                     THEN /\ fs' = get(fs, r.rmeta[f].data, file, r.rmeta[f].mtime)
                          /\ on_modified(file)
                          /\ Step(t, after_file(r, r.todo \ {f}))
                     ELSE Raise(t) /\ UNCHANGED <<fs, flagVars>>
    /\ UNCHANGED <<archives, attrVars, histVars>>

\* a local entry the snapshot lacks, outside the versions directory
local_only(lmeta, rmeta) ==
    {file \in DOMAIN lmeta :
        relpath(file) \notin DOMAIN rmeta /\ ~in_versions_dir(file)}

\* the local-only loop and "if do_backup: self.tahoe.backup(...)"
sync_backup_upto(t, most) ==
    /\ th[t].pc = "backup"
    /\ LET r == th[t]
           do == local_newer(r) \/ local_only(r.lmeta, r.rmeta) # {}
       IN  IF key_error(r)
           THEN Raise(t) /\ UNCHANGED remoteVars
           ELSE IF ~do
           THEN Step(t, [r EXCEPT !.pc = "latest"]) /\ UNCHANGED remoteVars
           ELSE \E ok \in Answers :
                  /\ answered(ok)
                  /\ IF ok
                     THEN /\ Len(archives) < most
                          /\ archives' = Append(archives, Snapshot(backup_tree(fs), "self"))
                          /\ Step(t, [r EXCEPT !.pc = "latest", !.owed = TRUE,
                                               !.made = SnapId(Len(archives) + 1)])
                     ELSE Raise(t) /\ UNCHANGED archives
    /\ UNCHANGED <<fs, flagVars, attrVars, histVars>>
sync_backup(t) == sync_backup_upto(t, MaxSnapshots)

\* self.local_snapshot = self.get_latest_snapshot()
sync_latest(t) ==
    /\ th[t].pc = "latest"
    /\ \E ok \in Answers :
         /\ answered(ok)
         /\ IF get_latest_snapshot_ok(ok, archives)
            THEN /\ local_snapshot' = get_latest_snapshot(archives)
                 /\ Step(t, [th[t] EXCEPT !.pc = "dec_load"])
            ELSE /\ Raise(t)
                 /\ UNCHANGED local_snapshot
    /\ UNCHANGED <<fs, flagVars, archives, sync_state, latest_snapshot, histVars>>

\* self.tahoe.parent.sync_state -= 1 : the load
sync_dec_load(t) ==
    /\ th[t].pc = "dec_load"
    /\ Step(t, [th[t] EXCEPT !.pc = "dec_store", !.cnt = sync_state])
    /\ UNCHANGED <<fs, flagVars, remoteVars, attrVars, histVars>>

\* self.tahoe.parent.sync_state -= 1 : the store, and the return
sync_dec_store(t) ==
    /\ th[t].pc = "dec_store"
    /\ sync_state' = th[t].cnt - 1
    /\ Return(t)
    /\ UNCHANGED <<fs, flagVars, remoteVars, local_snapshot,
                   latest_snapshot, histVars>>

SyncStep ==
    \/ \E t \in Threads : sync_inc_load(t)
    \/ \E t \in Threads : sync_inc_store(t)
    \/ \E t \in Threads : sync_skip_backup(t)
    \/ \E t \in Threads : sync_skip_latest(t)
    \/ \E t \in Threads : sync_scan(t)
    \/ \E t \in Threads : sync_get_metadata(t)
    \/ \E t \in Threads : sync_makedirs(t)
    \/ \E t \in Threads : sync_versioned_copy(t)
    \/ \E t \in Threads : sync_get(t)
    \/ \E t \in Threads : sync_get_missing(t)
    \/ \E t \in Threads : sync_backup(t)
    \/ \E t \in Threads : sync_latest(t)
    \/ \E t \in Threads : sync_dec_load(t)
    \/ \E t \in Threads : sync_dec_store(t)

\* ------------------------------------------- explicit calls of sync()
\* the trees a check of sync() starts from: a file, a file named like a
\* versioned copy of it, a directory
PathA == <<Comp("a")>>
PathAV == splice(PathA, strftime(1))
PathD == <<Comp("d")>>
InitPaths == {PathA, PathAV, PathD}
\* a remote file inside the remote directory
PathDC == PathD \o <<Comp("c")>>
\* a local file beside the versions directory whose name begins like it
PathV == <<Comp(".gridsync-versions.old")>>
LocalMtimes == {secs(1), secs(2)}
RemoteMtimes == {secs(1), secs(2), secs(2) + 1}
LocalData(p) == IF p = PathA THEN <<"x">> ELSE <<"y">>
RemoteData(p) == IF p = PathA THEN <<"u", "u">> ELSE <<"v", "v">>
LocalChoice(p) ==
    IF p = PathD THEN {DirEntry}
    ELSE IF p = PathV THEN {FileEntry(secs(1), LocalData(p))}
    ELSE IF p = PathA
    THEN {FileEntry(m, LocalData(p)) : m \in LocalMtimes \cup {secs(1) + 1}}
    ELSE {FileEntry(m, LocalData(p)) : m \in LocalMtimes}
RemoteChoice(p) ==
    IF p = PathD THEN {DirNode}
    ELSE IF p = PathDC THEN {FileNode(secs(2), RemoteData(p))}
    ELSE {FileNode(m, RemoteData(p)) : m \in RemoteMtimes}
LocalTrees ==
    UNION {{f \in [{join(local_dir, p) : p \in S} ->
                      UNION {LocalChoice(p) : p \in S}] :
               \A p \in S : f[join(local_dir, p)] \in LocalChoice(p)} :
           S \in SUBSET (InitPaths \cup {PathV})}
RemoteTrees ==
    UNION {{f \in [S -> UNION {RemoteChoice(p) : p \in S}] :
               \A p \in S : f[p] \in RemoteChoice(p)} :
           S \in {T \in SUBSET (InitPaths \cup {PathDC}) :
                     PathDC \in T => PathD \in T}}

\* StreamedLogs.__init__(reactor, maxlen): not running, no client service,
\* an empty deque(maxlen=maxlen).  made: the client services created so far;
\* arrived, last, out: history of the messages received, of the last call and
\* of what get_streamed_log_messages returned last.
DefaultMaxlen == 2000000
StreamedLogs(maxlen) ==
    [running |-> FALSE, client_service |-> 0, services |-> {}, made |-> 0,
     maxlen |-> maxlen, buffer |-> <<>>,
     arrived |-> <<>>, last |-> "init", out |-> <<>>]
\* Bridge.__init__: self.proxy = None (0), self.address = "" (0); urlfile:
\* the port number that private/bridge.url holds (0: no such file); ports:
\* the port number of each port made.  listening: the ports that are
\* bound and connected; closing: the stop() calls that wait for the first
\* connectionLost of the proxy; stale: the stop() calls whose connectionLost
\* comes after the port has closed; pending: the ports whose listen() a
\* suspended start() waits for; made: the ports created so far; last: history
\* of the last call.
Bridge ==
    [proxy |-> 0, address |-> 0, urlfile |-> 0, ports |-> <<>>,
     listening |-> {}, closing |-> 0, stale |-> 0, pending |-> {},
     made |-> 0, last |-> "init"]
NoProbe ==
    [op |-> "none", exists |-> FALSE, names |-> {}, kind |-> "", path |-> <<>>,
     raised |-> FALSE, out |-> <<>>]
InitWatcher ==
    /\ sync_state = 0
    /\ do_backup = FALSE
    /\ local_snapshot = Unset
    /\ latest_snapshot = Unset
    /\ th = [t \in Threads |-> IdleThread]
    /\ timers = Stopped
    /\ dirtied = {}
    /\ outages = 0
    /\ calls = <<>>
    /\ writes = <<>>
    /\ probe = NoProbe
    /\ logs = StreamedLogs(DefaultMaxlen)
    /\ bridge = Bridge

InitSync ==
    /\ InitWatcher
    /\ fs \in LocalTrees
    /\ archives \in {<<>>} \cup {<<Snapshot(m, "other")>> : m \in RemoteTrees}
    /\ pre = [fs |-> fs, archives |-> archives, sync_state |-> 0]

\* watcher.sync(snapshot, skip_comparison) called on a constructed Watcher
call_sync ==
    /\ th["reactor"].pc \in {"idle", "done", "failed"}
    /\ timers = Stopped
    /\ Len(calls) < MaxCalls
    /\ \E latest \in BOOLEAN, skip \in BOOLEAN, snap \in children(archives) \cup {Unset} :
         /\ latest <=> (snap = Unset)
         /\ th' = [th EXCEPT !["reactor"] = sync("reactor", "manual", latest, snap, skip)]
         /\ calls' = Append(calls, [latest |-> latest, snap |-> snap, skip |-> skip])
    /\ pre' = [fs |-> fs, archives |-> archives, sync_state |-> sync_state]
    /\ UNCHANGED <<fs, flagVars, remoteVars, attrVars, timers, writes, probe, otherVars>>

NextSync == call_sync \/ SyncStep
SpecSync == InitSync /\ [][NextSync]_vars

\* ------------------------------------------------ properties of one sync()
Main == th["reactor"]
\* the places a copy of `file` tagged with the whole second `sec` can be:
\* under the versions directory or beside the original
versioned_copies(file, sec) ==
    {join(versions_dir, splice(relpath(file), strftime(sec))),
     splice(file, strftime(sec))}
\* remote file entries whose path was a local file when sync was called
RemoteNewer(r) ==
    {f \in filenodes(r.rmeta) :
        /\ join(local_dir, f) \in DOMAIN pre.fs
        /\ pre.fs[join(local_dir, f)].type = "file"
        /\ int(r.rmeta[f].mtime) > int(pre.fs[join(local_dir, f)].mtime)}
LocalNewer(r) ==
    {f \in filenodes(r.rmeta) :
        /\ join(local_dir, f) \in DOMAIN pre.fs
        /\ pre.fs[join(local_dir, f)].type = "file"
        /\ int(pre.fs[join(local_dir, f)].mtime) > int(r.rmeta[f].mtime)}
ComparisonDone == Main.pc = "done" /\ ~Main.skip

\* C2: after a comparison sync completes, every file the remote beat (whole
\* seconds) has a versioned copy tagged with its prior local mtime holding
\* its prior content, and the live file has the remote content and mtime;
\* the copy exists, and the live file is still the prior one, when the
\* download is about to replace it.
C2_ConflictArchiving ==
    /\ ComparisonDone =>
         \A f \in RemoteNewer(Main) :
            LET file == join(local_dir, f)
                old == pre.fs[file]
            IN  /\ \E v \in versioned_copies(file, int(old.mtime)) :
                      /\ v \in DOMAIN fs
                      /\ fs[v].type = "file"
                      /\ fs[v].data = old.data
                /\ fs[file].type = "file"
                /\ fs[file].data = Main.rmeta[f].data
                /\ int(fs[file].mtime) = int(Main.rmeta[f].mtime)
    /\ (Main.pc = "get" /\ Main.ctx = "manual") =>
         LET file == join(local_dir, Main.cur)
             old == pre.fs[file]
         IN  /\ fs[file] = old
             /\ \E v \in versioned_copies(file, int(old.mtime)) :
                   v \in DOMAIN fs /\ fs[v].data = old.data

\* C3: after a comparison sync completes, every file whose local mtime beat
\* the remote's is unchanged, was not archived, and a new snapshot exists
\* whose entry for it has the local file's size and mtime.
C3_LocalAuthority ==
    ComparisonDone =>
      \A f \in LocalNewer(Main) :
         LET file == join(local_dir, f)
             old == pre.fs[file]
         IN  /\ fs[file] = old
             /\ \A v \in versioned_copies(file, int(old.mtime)) :
                   v \in DOMAIN fs => v \in DOMAIN pre.fs
             /\ Len(archives) = Len(pre.archives) + 1
             /\ LET snap == archives[Len(archives)].tree
                IN  /\ f \in DOMAIN snap
                    /\ snap[f].type = "filenode"
                    /\ snap[f].mtime = old.mtime
                    /\ Len(snap[f].data) = Len(old.data)

\* C4: the second of two successive completed comparison syncs against
\* 'Latest' writes nothing locally and creates no snapshot.
C4_Idempotence ==
    (/\ ComparisonDone
     /\ Len(calls) = 2
     /\ sync_state = 0
     /\ \A i \in 1..2 : calls[i].latest /\ ~calls[i].skip)
    => (fs = pre.fs /\ archives = pre.archives)

\* ----------------------------------------------- the running Watcher
PathB == <<Comp("b")>>
\* the snapshot the remote holds when the Watcher is constructed
FirstTree ==
    (PathA :> FileNode(secs(2), RemoteData(PathA))) @@ (PathD :> DirNode)
\* what another client of the same remote directory uploads
PathC == <<Comp("c")>>
OtherTree(arch) ==
    Put(arch[Len(arch)].tree, PathC, FileNode(secs(3), RemoteData(PathC)))

Init ==
    /\ InitWatcher
    /\ fs = (join(local_dir, PathA) :> FileEntry(secs(1), LocalData(PathA)))
    /\ archives \in {<<>>, <<Snapshot(FirstTree, "other")>>}
    /\ pre = [fs |-> fs, archives |-> archives, sync_state |-> 0]

Reactor == th["reactor"]
\* the reactor thread is free to run a timer callback
ReactorIdle == Reactor.pc = "idle" /\ calls # <<>>

\* start() with the observer and the LoopingCalls started before self.sync()
start_timers_first ==
    /\ Reactor.pc = "idle"
    /\ calls = <<>>
    /\ th' = [th EXCEPT !["reactor"] = sync("reactor", "start", TRUE, Unset, FALSE)]
    /\ calls' = <<[latest |-> TRUE, snap |-> Unset, skip |-> FALSE]>>
    /\ pre' = [fs |-> fs, archives |-> archives, sync_state |-> sync_state]
    /\ timers' = Running
    /\ UNCHANGED <<fs, flagVars, remoteVars, attrVars, writes, probe, otherVars>>
\* Watcher.start(): self.sync(), then the observer and the two LoopingCalls
start ==
    /\ Reactor.pc = "idle"
    /\ calls = <<>>
    /\ th' = [th EXCEPT !["reactor"] = sync("reactor", "start", TRUE, Unset, FALSE)]
    /\ calls' = <<[latest |-> TRUE, snap |-> Unset, skip |-> FALSE]>>
    /\ pre' = [fs |-> fs, archives |-> archives, sync_state |-> sync_state]
    /\ UNCHANGED <<fs, flagVars, remoteVars, attrVars, timers, writes, probe, otherVars>>

\* the user creates or rewrites a file under the watched directory
write(most) ==
    /\ timers.observer
    /\ Len(writes) < most
    /\ \E p \in {PathB} :
         LET file == join(local_dir, p)
         IN  /\ fs' = Put(fs, file, FileEntry(secs(4 + Len(writes)), <<"w">>))
             /\ on_modified(file)
             /\ writes' = Append(writes,
                    [path |-> p, burst |-> do_backup \/ Sleeping # {}])
    /\ UNCHANGED <<remoteVars, attrVars, th, timers, pre, calls, probe, otherVars>>
user_write == write(MaxWrites)

\* reactor.callInThread(f): a free thread of the pool starts f
callInThread(w, r) ==
    /\ th[w].pc = "idle"
    /\ \A o \in Workers : th[o].pc = "idle" => ~ThreadBefore(o, w)
    /\ th' = [th EXCEPT ![w] = r]

\* check_for_backup leaving the flag set
check_for_backup_keeps_flag ==
    /\ ReactorIdle
    /\ timers.local_checker
    /\ IF do_backup /\ sync_state = 0
       THEN /\ do_backup' = do_backup
            /\ \E w \in Workers :
                 /\ callInThread(w, [IdleThread EXCEPT !.pc = "sleep",
                                                       !.ctx = "debounce"])
                 /\ dirtied' = dirtied \ {w}
       ELSE UNCHANGED <<do_backup, dirtied, th>>
    /\ UNCHANGED <<fs, remoteVars, attrVars, timers, histVars>>
\* Watcher.check_for_backup, the 1 s LoopingCall
check_for_backup ==
    /\ ReactorIdle
    /\ timers.local_checker
    /\ IF do_backup /\ sync_state = 0
       THEN /\ do_backup' = FALSE
            /\ \E w \in Workers :
                 /\ callInThread(w, [IdleThread EXCEPT !.pc = "sleep",
                                                       !.ctx = "debounce"])
                 /\ dirtied' = dirtied \ {w}
       ELSE UNCHANGED <<do_backup, dirtied, th>>
    /\ UNCHANGED <<fs, remoteVars, attrVars, timers, histVars>>

\* Watcher.wait_for_writes after time.sleep(1): "if not self.do_backup"
wait_for_writes(w) ==
    /\ th[w].pc = "sleep"
    /\ th' = [th EXCEPT ![w] =
                IF ~do_backup THEN [th[w] EXCEPT !.pc = "perform"] ELSE IdleThread]
    /\ UNCHANGED <<fs, flagVars, remoteVars, attrVars, timers, histVars>>

\* perform_backup with the comparison of the two snapshots left out
perform_backup_always_skips(w) ==
    /\ th[w].pc = "perform"
    /\ \E ok \in Answers :
         /\ answered(ok)
         /\ IF get_latest_snapshot_ok(ok, archives) /\ local_snapshot # Unset
            THEN th' = [th EXCEPT ![w] = sync(w, "debounce", TRUE, Unset, TRUE)]
            ELSE th' = [th EXCEPT ![w] = IdleThread]
    /\ UNCHANGED <<fs, flagVars, archives, attrVars, timers, histVars>>

\* Watcher.perform_backup up to its call of sync
perform_backup(w) ==
    /\ th[w].pc = "perform"
    /\ \E ok \in Answers :
         /\ answered(ok)
         /\ IF get_latest_snapshot_ok(ok, archives) /\ local_snapshot # Unset
            THEN LET remote_snapshot == get_latest_snapshot(archives)
                 IN  th' = [th EXCEPT ![w] =
                              IF local_snapshot = remote_snapshot
                              THEN sync(w, "debounce", TRUE, Unset, TRUE)
                              ELSE sync(w, "debounce", FALSE, remote_snapshot, FALSE)]
            ELSE th' = [th EXCEPT ![w] = IdleThread]
    /\ UNCHANGED <<fs, flagVars, archives, attrVars, timers, histVars>>

\* check_for_new_snapshot whose except branch calls self.sync()
check_for_new_snapshot_compares ==
    /\ ReactorIdle
    /\ timers.remote_checker
    /\ \E ok \in Answers :
         /\ answered(ok)
         /\ IF ~get_latest_snapshot_ok(ok, archives)
            THEN /\ th' = [th EXCEPT !["reactor"] =
                             sync("reactor", "poll", TRUE, Unset, FALSE)]
                 /\ UNCHANGED timers
            ELSE IF get_latest_snapshot(archives) # local_snapshot /\ sync_state = 0
                 THEN /\ timers' = [timers EXCEPT !.remote_checker = FALSE]
                      /\ UNCHANGED th
                 ELSE UNCHANGED <<th, timers>>
    /\ UNCHANGED <<fs, flagVars, archives, attrVars, histVars>>

\* Watcher.check_for_new_snapshot, the polling LoopingCall
check_for_new_snapshot ==
    /\ ReactorIdle
    /\ timers.remote_checker
    /\ \E ok \in Answers :
         /\ answered(ok)
         /\ IF ~get_latest_snapshot_ok(ok, archives)
            THEN /\ th' = [th EXCEPT !["reactor"] =
                             sync("reactor", "poll", TRUE, Unset, TRUE)]
                 /\ UNCHANGED timers
            ELSE IF get_latest_snapshot(archives) # local_snapshot /\ sync_state = 0
                 THEN \* snapshot=latest_snapshot: NameError, the LoopingCall stops
                      /\ timers' = [timers EXCEPT !.remote_checker = FALSE]
                      /\ UNCHANGED th
                 ELSE UNCHANGED <<th, timers>>
    /\ UNCHANGED <<fs, flagVars, archives, attrVars, histVars>>

\* another client backs up to the same remote directory
other_client_backup_upto(most) ==
    /\ timers.observer
    /\ 0 < Len(archives) /\ Len(archives) < most
    /\ archives' = Append(archives, Snapshot(OtherTree(archives), "other"))
    /\ UNCHANGED <<fs, flagVars, outages, attrVars, th, timers, histVars>>
other_client_backup == other_client_backup_upto(MaxSnapshots)

\* Watcher.stop(), called on the reactor thread of a started Watcher.
\* LoopingCall.stop() asserts that the call is running: when the poll has
\* died of an exception the assert either raises, and the observer is left
\* running, or is compiled out.
stop ==
    /\ ReactorIdle
    /\ timers.local_checker
    /\ \E asserts \in BOOLEAN :
         timers' = IF ~timers.remote_checker /\ asserts
                   THEN [timers EXCEPT !.local_checker = FALSE]
                   ELSE [Stopped EXCEPT !.stopped = TRUE]
    /\ UNCHANGED <<fs, flagVars, remoteVars, attrVars, th, histVars>>

Next ==
    \/ start
    \/ stop
    \/ user_write
    \/ check_for_backup
    \/ \E w \in Workers : wait_for_writes(w)
    \/ \E w \in Workers : perform_backup(w)
    \/ check_for_new_snapshot
    \/ other_client_backup
    \/ SyncStep
Spec == Init /\ [][Next]_vars

\* ------------------------------------------- properties of the Watcher
SyncPcs ==
    {"inc_load", "inc_store", "skip_backup", "skip_latest", "scan", "getmeta",
     "dirs", "files", "get", "backup", "latest", "dec_load", "dec_store"}
\* thread t is executing sync()
InSync(t) == th[t].pc \in SyncPcs
\* the latest snapshot as a successful listing of the archive gives it
RemoteLatest == get_latest_snapshot(archives)

\* C1: at most one execution of sync() is in flight at any time.
C1_OneSyncInFlight == Cardinality({t \in Threads : InSync(t)}) <= 1

\* C5: the change events of one burst on a new local file (each event
\* arrives while the flag or the debounce check of the one before it still
\* waits), with a remote store that answers every call and no other client,
\* lead to at most one snapshot containing the file.
C5_OneSnapshotPerBurst ==
    (/\ writes # <<>>
     /\ \A i \in 2..Len(writes) : writes[i].burst
     /\ outages = 0
     /\ \A i \in 2..Len(archives) : archives[i].by = "self")
    => Cardinality({i \in 2..Len(archives) :
                      PathB \in DOMAIN archives[i].tree}) <= 1

\* C6: a debounce check that a change event reached during its wait skips
\* its cycle: it does not go on to perform_backup and sync.
C6_SkipWhenDirtied ==
    \A w \in Workers : (th[w].pc = "perform" \/ InSync(w)) => w \notin dirtied

\* C7: a poll tick that fetches a latest snapshot differing from the local
\* snapshot pointer while no sync is in flight starts a comparison sync
\* against that snapshot; otherwise it starts nothing.
C7_PollReconciles ==
    [][(check_for_new_snapshot /\ outages' = outages) =>
          IF RemoteLatest # local_snapshot /\ sync_state = 0
          THEN \E t \in Threads :
                 /\ th[t].pc = "idle"
                 /\ th'[t] = sync(t, th'[t].ctx, FALSE, RemoteLatest, FALSE)
          ELSE th' = th]_vars

C9_SkipRecordsPointer ==
    (Main.pc = "done" /\ Main.skip) =>
        (local_snapshot = Main.made /\ sync_state = pre.sync_state)

\* C10 as stated: every sync the debounce path starts skips the comparison.
C10_DebounceAlwaysSkips ==
    \A w \in Workers : (InSync(w) /\ th[w].ctx = "debounce") => th[w].skip
\* C10 amended: the sync perform_backup starts skips the comparison exactly
\* when the local snapshot pointer equals the latest snapshot it fetched;
\* otherwise it is a comparison sync against that snapshot.
C10_DebounceSkipsIffCurrent ==
    [][\A w \in Workers :
         (perform_backup(w) /\ InSync(w)') =>
            th'[w] = IF local_snapshot = RemoteLatest
                     THEN sync(w, "debounce", TRUE, Unset, TRUE)
                     ELSE sync(w, "debounce", FALSE, RemoteLatest, FALSE)]_vars
C10_Witness ==
    \E w \in Workers :
        /\ InSync(w) /\ th[w].ctx = "debounce" /\ ~th[w].skip
        /\ th[w].snap # local_snapshot

\* ------------------------------------ properties of the in-flight counter
\* thread t has incremented the counter and not yet decremented it
Counted(t) == InSync(t) /\ th[t].pc \notin {"inc_load", "inc_store"}
\* an exception leaves the sync() that thread t runs
Aborts(t) == InSync(t) /\ th[t].pc # "dec_store" /\ ~InSync(t)'

\* C11: the in-flight counter equals the number of sync executions that have
\* incremented it and not yet decremented it (so it is never negative and
\* is zero exactly when none is in flight).
C11_CounterExact ==
    sync_state = Cardinality({t \in Threads : Counted(t)})

\* C12: when a sync aborts with an error the in-flight counter is back at
\* the value it had before that sync and the timers keep running.
C12_FailureNotFatal ==
    [][\A t \in Threads :
         Aborts(t) => (sync_state' = th[t].cnt /\ timers' = timers)]_vars

\* C13: a failed sync leaves the local tree and the remote archive exactly
\* as they were when it was called.
C13_FailureLeavesTrees ==
    Main.pc = "failed" => (fs = pre.fs /\ archives = pre.archives)

\* C14: once stop() has returned no sync is running and no debounce check
\* goes on to perform_backup.
C14_StopLeavesNothingRunning ==
    timers.stopped =>
        \A t \in Threads : ~InSync(t) /\ th[t].pc # "perform"

\* ------------------------------------- two Watchers on one tahoe object
\* A second Watcher, constructed with the same tahoe object for another
\* directory, runs a sync on a pool thread: both count their syncs in
\* self.tahoe.parent.sync_state.  Its sync is taken as two steps, the
\* increment and the decrement.
peer_sync_begin(w) ==
    /\ timers.local_checker
    /\ \A t \in Threads : th[t].pc # "peer"
    /\ callInThread(w, [IdleThread EXCEPT !.pc = "peer", !.ctx = "peer"])
    /\ sync_state' = sync_state + 1
    /\ UNCHANGED <<fs, flagVars, remoteVars, local_snapshot, latest_snapshot,
                   timers, histVars>>
peer_sync_end(w) ==
    /\ th[w].pc = "peer"
    /\ th' = [th EXCEPT ![w] = IdleThread]
    /\ sync_state' = sync_state - 1
    /\ UNCHANGED <<fs, flagVars, remoteVars, local_snapshot, latest_snapshot,
                   timers, histVars>>

NextDirs ==
    \/ Next
    \/ \E w \in Workers : peer_sync_begin(w)
    \/ \E w \in Workers : peer_sync_end(w)
SpecDirs == Init /\ [][NextDirs]_vars

\* the syncs of the other directory that are in flight
PeerInFlight == Cardinality({t \in Threads : th[t].pc = "peer"})
\* "if self.do_backup and not self.tahoe.parent.sync_state": the tick acts
tick_acts == do_backup /\ sync_state = 0

\* C15: a dirty-check tick of this directory, with its flag set and no sync
\* of this directory in flight or left counted, acts whatever syncs of the
\* other directory are in flight.
C15_DirectoriesIndependent ==
    (/\ timers.local_checker
     /\ do_backup
     /\ \A t \in Threads : ~InSync(t)
     /\ sync_state = PeerInFlight)
    => tick_acts

\* ------------------------------------------ properties of the file loops
\* the reserved versions subtree: versions_dir and what lies below it
under_versions(p) == IsPrefix(versions_dir, p)
\* the local entries of the call's tree that the snapshot lacks
LocalOnly(r) ==
    {p \in DOMAIN pre.fs : relpath(p) \notin DOMAIN r.rmeta /\ ~under_versions(p)}
\* the remote file entries whose path the call's tree lacks
MissingLocally(r) ==
    {f \in filenodes(r.rmeta) : join(local_dir, f) \notin DOMAIN pre.fs}
LastTree == archives[Len(archives)].tree

\* C16: whatever a completed comparison sync has added to the local tree
\* is an entry of the snapshot or lies under the versions subtree, and no
\* path under the versions subtree sets the backup-owed flag.
C16_VersionsExclusion ==
    ComparisonDone =>
        /\ \A p \in DOMAIN fs \ DOMAIN pre.fs :
              relpath(p) \in DOMAIN Main.rmeta \/ under_versions(p)
        /\ \A p \in local_only(Main.lmeta, Main.rmeta) : ~under_versions(p)

\* C17: the versioned copy of a file about to be overwritten is written
\* under the versions subtree with the file's content and mtime, its parent
\* directory exists afterwards, and nothing else in the tree changes.
C17_VersionedCopyPlacement ==
    [][\A t \in Threads :
         (sync_versioned_copy(t) /\ th'[t].pc = "get") =>
            LET file == join(local_dir, th'[t].cur)
                sec == int(th[t].lmeta[file].mtime)
                dst == join(versions_dir, splice(th'[t].cur, strftime(sec)))
            IN  /\ dst \in DOMAIN fs'
                /\ fs'[dst] = fs[file]
                /\ isdir(fs', dirname(dst))
                /\ \A p \in DOMAIN fs : p \in DOMAIN fs' /\ fs'[p] = fs[p]
                /\ \A p \in DOMAIN fs' \ DOMAIN fs : under_versions(p)]_vars

\* C18: after a completed comparison sync every remote file entry whose
\* path was missing locally is a local file with the remote content and
\* mtime, and when nothing else differed no snapshot was created.
C18_MissingDownloaded ==
    ComparisonDone =>
        /\ \A f \in MissingLocally(Main) :
              LET file == join(local_dir, f)
              IN  /\ file \in DOMAIN fs
                  /\ fs[file] = FileEntry(Main.rmeta[f].mtime, Main.rmeta[f].data)
        /\ (LocalNewer(Main) = {} /\ LocalOnly(Main) = {})
              => archives = pre.archives

\* C19: after a completed comparison sync every local entry that the
\* snapshot lacked and that is not under the versions subtree is still
\* there, and a new snapshot containing it has been uploaded.
C19_LocalOnlyOwesBackup ==
    ComparisonDone =>
        \A p \in LocalOnly(Main) :
            /\ p \in DOMAIN fs
            /\ Len(archives) = Len(pre.archives) + 1
            /\ relpath(p) \in DOMAIN LastTree

\* the entries of the call's tree for which sync sets its do_backup flag
Flagged(r) ==
    {join(local_dir, f) : f \in LocalNewer(r)}
        \cup local_only(get_local_metadata(pre.fs), r.rmeta)

\* C20: a completed comparison sync has uploaded exactly one snapshot when
\* some entry set the backup-owed flag and none when no entry did; the
\* snapshots that existed are untouched.
C20_UploadIffOwed ==
    ComparisonDone =>
        /\ Len(archives) = Len(pre.archives) + (IF Flagged(Main) # {} THEN 1 ELSE 0)
        /\ SubSeq(archives, 1, Len(pre.archives)) = pre.archives
C20_Witness ==
    /\ ComparisonDone
    /\ Cardinality(Flagged(Main)) >= 2
    /\ LocalNewer(Main) # {}
    /\ Len(archives) = Len(pre.archives) + 1

\* ------------------------------------- properties of the mtime comparison
\* the file whose versioned copy or download the step of thread t makes
CopiedBy(t) == IF th[t].pc = "files" THEN th'[t].cur ELSE th[t].cur
\* thread t archives or replaces a file that the scan found
Replaces(t) ==
    \/ sync_versioned_copy(t) /\ th'[t].pc = "get"
    \/ sync_get(t) /\ th'[t].pc # "idle" /\ th'[t].pc # "failed"
\* the scanned and the remote mtime of f lie less than one second apart
NearMtimes(r, f) ==
    LET l == r.lmeta[join(local_dir, f)].mtime
        m == r.rmeta[f].mtime
    IN  l - m < TicksPerSec /\ m - l < TicksPerSec
\* the scanned and the remote mtime of f lie in the same whole second
SameSecond(r, f) ==
    int(r.lmeta[join(local_dir, f)].mtime) = int(r.rmeta[f].mtime)
\* the remote file entries of the call whose local file has the same second
EqualSecond(r) ==
    {f \in filenodes(r.rmeta) :
        /\ join(local_dir, f) \in DOMAIN pre.fs
        /\ pre.fs[join(local_dir, f)].type = "file"
        /\ int(pre.fs[join(local_dir, f)].mtime) = int(r.rmeta[f].mtime)}

\* C21 as stated: no versioned copy and no download is made of a file whose
\* local and remote mtimes differ by less than one second.
C21_SubSecondNoAction ==
    [][\A t \in Threads : Replaces(t) => ~NearMtimes(th[t], CopiedBy(t))]_vars
\* C21 amended: no versioned copy and no download is made of a file whose
\* local and remote mtimes truncate to the same whole second, and such a
\* file alone makes a completed sync upload nothing.
C21_SameSecondNoAction ==
    /\ [][\A t \in Threads : Replaces(t) => ~SameSecond(th[t], CopiedBy(t))]_vars
    /\ [](ComparisonDone =>
            ((/\ \A p \in DOMAIN pre.fs : relpath(p) \in EqualSecond(Main)
              /\ EqualSecond(Main) = DOMAIN Main.rmeta)
             => (fs = pre.fs /\ archives = pre.archives)))
C21_Witness ==
    /\ ComparisonDone
    /\ \E f \in EqualSecond(Main) :
          /\ pre.fs[join(local_dir, f)].mtime # Main.rmeta[f].mtime
          /\ fs = pre.fs
          /\ archives = pre.archives

Started == calls # <<>> /\ Reactor.pc = "idle"

\* C22: started with no archive namespace on the remote store, and with the
\* store answering every call, the Watcher's first sync uploads: once start()
\* is over the first snapshot exists, made by this Watcher from the local tree.
C22_FirstUseUploads ==
    (Started /\ pre.archives = <<>> /\ outages = 0)
        => /\ Len(archives) >= 1
           /\ archives[1].by = "self"

\* ------------------------------------------------- the pointer after a sync
\* C23: when a comparison sync returns, the local snapshot pointer is the
\* lexicographically greatest identifier the archive namespace holds at that
\* moment, and the return has taken the in-flight counter down by exactly one.
C23_PointerIsLatestAtReturn ==
    [][\A t \in Threads :
         (sync_dec_store(t) /\ ~th[t].skip)
             => /\ local_snapshot' = get_latest_snapshot(archives')
                /\ sync_state' = sync_state - 1]_vars

\* ------------------------------------------------ where a sync is executed
\* C24: while the timers of the Watcher run, every sync in flight is executed
\* by a thread of the pool and never by the reactor thread, which delivers
\* the dirty-check ticks and the poll ticks.
C24_SyncOffTimerPath ==
    \A t \in Threads : (InSync(t) /\ timers.local_checker) => t \in Workers

\* ------------------------------------------- single calls of the handlers
MaxNameLen == 2
MaxChildren == 2
NameChars == {0, 1, 9}
\* the child names a listing of the archive namespace can hold
RECURSIVE NamesOfLen(_)
NamesOfLen(n) ==
    IF n = 0 THEN {<<>>}
    ELSE {Append(a, ch) : a \in NamesOfLen(n - 1), ch \in NameChars}
Names == UNION {NamesOfLen(n) : n \in 1..MaxNameLen}
RECURSIVE Listings(_)
Listings(n) ==
    IF n = 0 THEN {{}}
    ELSE Listings(n - 1) \cup {l \cup {a} : l \in Listings(n - 1), a \in Names}

\* the kinds of event the observer delivers, and the paths they are about
EventKinds == {"created", "modified", "deleted", "moved"}
EventPaths ==
    {join(local_dir, PathB), join(local_dir, PathV), join(versions_dir, PathA)}

InitUnits ==
    /\ InitWatcher
    /\ fs = (join(local_dir, PathA) :> FileEntry(secs(1), LocalData(PathA)))
    /\ archives = <<>>
    /\ pre = [fs |-> fs, archives |-> archives, sync_state |-> 0]

\* Watcher.get_latest_snapshot() against a remote whose archive namespace is
\* absent (or unreachable), or is listed with the child names `names`
call_get_latest_snapshot(exists, names) ==
    /\ probe' = [NoProbe EXCEPT
                   !.op = "get_latest_snapshot", !.exists = exists,
                   !.names = names,
                   !.raised = ~listing_ok(exists, names),
                   !.out = IF listing_ok(exists, names)
                           THEN latest_of(names) ELSE Unset]
    /\ UNCHANGED <<fs, flagVars, remoteVars, attrVars, th, timers, pre, calls,
                   writes, otherVars>>

\* the observer delivers one event of kind `kind` about `path`
deliver(kind, path) ==
    /\ probe' = [NoProbe EXCEPT !.op = "dispatch", !.kind = kind, !.path = path]
    /\ dispatch(kind, path)
    /\ UNCHANGED <<fs, remoteVars, attrVars, th, timers, pre, calls, writes,
                   otherVars>>

NextUnits ==
    \/ \E names \in Listings(MaxChildren) : call_get_latest_snapshot(TRUE, names)
    \/ call_get_latest_snapshot(FALSE, {})
    \/ \E kind \in EventKinds, path \in EventPaths : deliver(kind, path)

SpecUnits == InitUnits /\ [][NextUnits]_vars

\* C25: every create, modify or delete event about a path outside the versions
\* subtree sets the dirty flag, and an event about a path under the versions
\* subtree leaves the flag as it was.
C25_EveryEventSetsFlag ==
    [][\A kind \in EventKinds, path \in EventPaths :
         deliver(kind, path)
             => IF under_versions(path)
                THEN do_backup' = do_backup
                ELSE kind \in {"created", "modified", "deleted"} => do_backup']_vars

\* a is before b in the order of strings: at the first place where they
\* differ a has ended or has the lesser character
StrLess(a, b) ==
    \E k \in 1..(Len(b)) :
        /\ k <= Len(a) + 1
        /\ \A i \in 1..(k - 1) : a[i] = b[i]
        /\ k = Len(a) + 1 \/ a[k] < b[k]

\* C26: get_latest_snapshot returns the child name of the archive namespace
\* that is greatest in the order of strings, whatever numbers the names
\* denote; it raises and returns no identifier when the namespace is absent
\* or has no children.  Among the identifiers the store hands out the
\* greatest is the most recent.
C26_LatestIsStringGreatest ==
    /\ probe.op = "get_latest_snapshot" =>
          IF probe.exists /\ probe.names # {}
          THEN /\ ~probe.raised
               /\ probe.out \in probe.names
               /\ \A o \in probe.names \ {probe.out} : StrLess(o, probe.out)
          ELSE probe.raised /\ probe.out = Unset
    /\ \A i, j \in 1..(MaxSnapshots + 1) :
          i < j => StrLess(SnapId(i), SnapId(j))
C26_Witness ==
    /\ probe.op = "get_latest_snapshot"
    /\ probe.names = {<<9>>, <<1, 0>>}
    /\ probe.out = <<9>>

\* --------------------------------------------------- sync(skip_comparison)
SkipDone == Main.pc = "done" /\ Main.skip
\* the files of the latest snapshot at the call that a comparison would have
\* fetched: absent from the local tree, or older there by a whole second
WouldFetch ==
    IF pre.archives = <<>> THEN {}
    ELSE LET m == pre.archives[Len(pre.archives)].tree
         IN  {f \in filenodes(m) :
                \/ join(local_dir, f) \notin DOMAIN pre.fs
                \/ /\ pre.fs[join(local_dir, f)].type = "file"
                   /\ int(m[f].mtime) > int(pre.fs[join(local_dir, f)].mtime)}

\* C29: a completed sync(skip_comparison=True) has uploaded the local tree
\* exactly once, as the one snapshot added to the archive, and has left the
\* local tree as it was at the call: nothing downloaded, no versioned copy
\* and no directory made.
C29_SkipOnlyUploads ==
    SkipDone =>
        /\ fs = pre.fs
        /\ Len(archives) = Len(pre.archives) + 1
        /\ SubSeq(archives, 1, Len(pre.archives)) = pre.archives
        /\ archives[Len(archives)] = Snapshot(backup_tree(pre.fs), "self")
C29_Witness == SkipDone /\ WouldFetch # {}

\* ------------------------------------------------- the dirty-check tick
NoSyncInFlight == \A t \in Threads : ~InSync(t)
\* the threads that a step has moved into the debounce wait
Scheduled == {w \in Threads : th[w].pc # "sleep" /\ th'[w].pc = "sleep"}

\* C28: a dirty-check tick acts exactly when the flag is set and no sync is
\* in flight; when it acts it clears the flag, schedules exactly one
\* background check and touches nothing else; otherwise it changes nothing.
C28_TickFrame ==
    /\ []((timers.local_checker /\ ReactorIdle)
            => (tick_acts <=> (do_backup /\ NoSyncInFlight)))
    /\ [][check_for_backup =>
            IF tick_acts
            THEN /\ ~do_backup'
                 /\ Cardinality(Scheduled) = 1
                 /\ \A w \in Threads \ Scheduled : th'[w] = th[w]
                 /\ UNCHANGED <<fs, remoteVars, attrVars, timers>>
            ELSE UNCHANGED <<do_backup, th, fs, remoteVars, attrVars, timers>>]_vars

\* ------------------------------------------------ no change is lost
\* The Watcher with a remote store that answers every call and no stop(),
\* under fair scheduling: a LoopingCall that is due is run, a thread of the
\* pool that can go on does.  Nothing obliges the user or another client
\* to act.
MaxLiveWrites == 3
InitLive ==
    /\ sync_state = 0
    /\ do_backup = FALSE
    /\ local_snapshot = Unset
    /\ latest_snapshot = Unset
    /\ th = [t \in Threads |-> IdleThread]
    /\ timers = Stopped
    /\ dirtied = {}
    /\ outages = MaxOutages
    /\ calls = <<>>
    /\ writes = <<>>
    /\ probe = NoProbe
    /\ logs = StreamedLogs(DefaultMaxlen)
    /\ bridge = Bridge
    /\ fs = (join(local_dir, PathA) :> FileEntry(secs(1), LocalData(PathA)))
    /\ archives = <<Snapshot(FirstTree, "other")>>
    /\ pre = [fs |-> fs, archives |-> archives, sync_state |-> 0]

\* one step of thread t inside sync()
ThreadStep(t) ==
    \/ sync_inc_load(t) \/ sync_inc_store(t)
    \/ sync_skip_backup(t) \/ sync_skip_latest(t)
    \/ sync_scan(t) \/ sync_get_metadata(t) \/ sync_makedirs(t)
    \/ sync_versioned_copy(t) \/ sync_get(t) \/ sync_get_missing(t)
    \/ sync_backup(t) \/ sync_latest(t)
    \/ sync_dec_load(t) \/ sync_dec_store(t)

NextLive ==
    \/ start
    \/ write(MaxLiveWrites)
    \/ check_for_backup
    \/ \E w \in Workers : wait_for_writes(w)
    \/ \E w \in Workers : perform_backup(w)
    \/ check_for_new_snapshot
    \/ other_client_backup
    \/ SyncStep

Fairness ==
    /\ WF_vars(start)
    /\ WF_vars(check_for_backup)
    /\ \A w \in Workers : WF_vars(wait_for_writes(w)) /\ WF_vars(perform_backup(w))
    /\ \A t \in Threads : WF_vars(ThreadStep(t))

SpecLive == InitLive /\ [][NextLive]_vars /\ Fairness

\* a sync is starting: a thread has entered sync()
SyncStarting == \E t \in Threads : th[t].pc = "inc_load"
\* an upload waits for room in the archive
Blocked ==
    /\ Len(archives) >= MaxSnapshots
    /\ \E t \in Threads : th[t].pc \in {"skip_backup", "backup"}

\* C27: with fair scheduling and a remote store that answers, every local
\* change event, which sets the dirty flag, is eventually followed by the
\* start of a sync.
C27_NoChangeLost ==
    <>Blocked \/ (do_backup ~> SyncStarting)

\* ------------------------------------------- directories before files
\* the comparison sync of the caller has left its directory loop
PastDirs ==
    /\ ~Main.skip
    /\ Main.pc \in {"files", "get", "backup", "latest", "dec_load", "dec_store",
                    "done"}

\* C31: once a comparison sync has left its directory loop, and so before its
\* first download, every directory entry of the remote metadata is a local
\* directory: no download finds the directory of its target missing.
C31_DirsBeforeFiles ==
    PastDirs => \A d \in dirnodes(Main.rmeta) : isdir(fs, join(local_dir, d))
C31_Witness ==
    /\ ComparisonDone
    /\ join(local_dir, PathD) \notin DOMAIN pre.fs
    /\ join(local_dir, PathDC) \in DOMAIN fs

\* ------------------------------------- the user edits while a sync runs
\* one explicit comparison or skip sync, as in SpecSync, over a few trees,
\* with the user free to rewrite or create a.txt while the sync is running
MaxEdits == 1
InitEdit ==
    /\ InitWatcher
    /\ fs \in {f \in LocalTrees :
                 /\ DOMAIN f \subseteq {join(local_dir, PathA)}
                 /\ \A q \in DOMAIN f : f[q].mtime = secs(1)}
    /\ archives \in {<<>>, <<Snapshot(FirstTree, "other")>>}
    /\ pre = [fs |-> fs, archives |-> archives, sync_state |-> 0]

\* the user saves a.txt: new content, the mtime of now
edit ==
    /\ InSync("reactor")
    /\ Len(writes) < MaxEdits
    /\ LET file == join(local_dir, PathA)
       IN  /\ fs' = Put(fs, file, FileEntry(secs(3), <<"w">>))
           /\ on_modified(file)
           /\ writes' = Append(writes, [path |-> PathA, burst |-> FALSE])
    /\ UNCHANGED <<remoteVars, attrVars, th, timers, pre, calls, probe, otherVars>>

NextEdit == call_sync \/ SyncStep \/ edit
SpecEdit == InitEdit /\ [][NextEdit]_vars

\* the versioned copies of `file` that the tree f holds, whatever their tag
\* and whichever of the two places they are at
MaxSec == 4
VersionsOf(f, file) ==
    {q \in DOMAIN f : \E sec \in 0..MaxSec : q \in versioned_copies(file, sec)}
\* thread t downloads over the live file `file`
Overwrites(t, file) ==
    /\ sync_get(t) \/ sync_get_missing(t)
    /\ file \in DOMAIN fs /\ fs[file].type = "file"
    /\ fs'[file] # fs[file]

\* C32: whenever a comparison sync downloads over a live local file, the
\* content it overwrites is held by a versioned copy of that file afterwards,
\* also when the user has saved the file since the sync scanned the tree.
C32_OverwrittenIsPreserved ==
    [][\A t \in Threads, file \in DOMAIN fs :
         Overwrites(t, file)
             => \E q \in VersionsOf(fs', file) : fs'[q].data = fs[file].data]_vars

\* ------------------------------------------ what the pointer may name
\* the snapshot that the identifier id names
SnapshotOf(id) == archives[CHOOSE i \in 1..Len(archives) : SnapId(i) = id]

\* C33: whenever a sync sets the local snapshot pointer, the snapshot it
\* names was uploaded by this Watcher or holds the metadata that the sync
\* has compared with the local tree; a snapshot another client has uploaded
\* in the meantime is not recorded.
C33_PointerIsReconciled ==
    [][\A t \in Threads :
         (sync_latest(t) /\ local_snapshot' # local_snapshot)
             => \/ SnapshotOf(local_snapshot').by = "self"
                \/ SnapshotOf(local_snapshot').tree = th[t].rmeta]_vars

\* ------------------------------------------------------ the Watcher settles
\* The Watcher of SpecLive with at most two changes by the user and room in
\* the archive for the snapshots that one change and one upload of another
\* client lead to.
MaxSettleWrites == 2
MaxSettleSnapshots == 4
ThreadStepUpto(t, most) ==
    \/ sync_inc_load(t) \/ sync_inc_store(t)
    \/ sync_skip_backup_upto(t, most) \/ sync_skip_latest(t)
    \/ sync_scan(t) \/ sync_get_metadata(t) \/ sync_makedirs(t)
    \/ sync_versioned_copy(t) \/ sync_get(t) \/ sync_get_missing(t)
    \/ sync_backup_upto(t, most) \/ sync_latest(t)
    \/ sync_dec_load(t) \/ sync_dec_store(t)

NextSettle ==
    \/ start
    \/ write(MaxSettleWrites)
    \/ check_for_backup
    \/ \E w \in Workers : wait_for_writes(w)
    \/ \E w \in Workers : perform_backup(w)
    \/ check_for_new_snapshot
    \/ other_client_backup_upto(MaxSettleSnapshots)
    \/ \E t \in Threads : ThreadStepUpto(t, MaxSettleSnapshots)

FairnessSettle ==
    /\ WF_vars(start)
    /\ WF_vars(check_for_backup)
    /\ \A w \in Workers : WF_vars(wait_for_writes(w)) /\ WF_vars(perform_backup(w))
    /\ \A t \in Threads : WF_vars(ThreadStepUpto(t, MaxSettleSnapshots))

SpecSettle == InitLive /\ [][NextSettle]_vars /\ FairnessSettle

\* the snapshots this Watcher has uploaded, and those another client has
\* uploaded since the Watcher was constructed
SelfMade == Cardinality({i \in 1..Len(archives) : archives[i].by = "self"})
Foreign == Cardinality({i \in 2..Len(archives) : archives[i].by = "other"})
\* no check scheduled, no sync running, nothing for the next tick to act on
Quiet == (\A t \in Threads : th[t].pc = "idle") /\ ~tick_acts
BlockedSettle ==
    /\ Len(archives) >= MaxSettleSnapshots
    /\ \E t \in Threads : th[t].pc \in {"skip_backup", "backup"}

\* C34: the Watcher uploads at most one snapshot for each change of the user
\* and each snapshot of another client, whatever its own downloads, copies
\* and uploads set off; and once the user and the other client have stopped,
\* it comes to rest: from some moment on no check is scheduled, no sync runs
\* and no snapshot is made.
C34_Settles ==
    /\ [](SelfMade <= Len(writes) + Foreign)
    /\ <>BlockedSettle \/ <>[]Quiet
\* the upload that followed the user's change has downloaded what the other
\* client added, those downloads have set off one more upload, and the
\* Watcher is at rest
C34_Witness ==
    /\ Quiet
    /\ Len(writes) = 1 /\ Foreign = 1 /\ SelfMade = 2
    /\ join(local_dir, PathC) \in DOMAIN fs

\* ------------------------------------------------------------- start()
\* start() is inside its sync
Starting == Reactor.ctx = "start"
\* the step by which the sync of start() returns
StartReturns == Starting /\ sync_dec_store("reactor")

\* C35: start() runs one comparison sync against 'Latest'; while it runs
\* the observer and both timers are off, so no event sets the flag and no
\* tick schedules anything; the observer and the timers are started by the
\* return of that sync and by nothing else, and a sync that raises leaves
\* them off.
C35_SyncBeforeTimers ==
    /\ [](Starting =>
            /\ Reactor.latest /\ ~Reactor.skip /\ Len(calls) = 1
            /\ timers = Stopped
            /\ ~do_backup
            /\ \A w \in Workers : th[w].pc = "idle")
    /\ [][(Starting /\ ~Starting')
            => timers' = IF StartReturns THEN Running ELSE Stopped]_vars
    /\ [][(~timers.observer /\ timers'.observer) => StartReturns]_vars
\* the sync of start() has raised: start() is over, the counter is left
\* incremented and nothing has been started
C35_Witness ==
    /\ Started
    /\ timers = Stopped
    /\ sync_state = 1

\* ------------------------------------------------------------ StreamedLogs
MaxMessages == 3
MaxServices == 3
Maxlens == {0, 1, 2, DefaultMaxlen}
\* the payloads of text-mode messages: UTF-8 of "a", of "e" acute, of both
Payloads == {<<97>>, <<195, 169>>, <<97, 195, 169>>}
\* bytes.decode("utf-8"): the code points of a valid UTF-8 byte string
RECURSIVE decode(_)
decode(b) ==
    IF b = <<>> THEN <<>>
    ELSE IF b[1] < 128 THEN <<b[1]>> \o decode(Tail(b))
    ELSE <<(b[1] - 192) * 64 + (b[2] - 128)>> \o decode(Tail(Tail(b)))
\* deque(maxlen).append: the oldest element goes when the deque is full
append(buffer, maxlen, m) ==
    LET all == Append(buffer, m)
    IN  IF Len(all) <= maxlen THEN all
        ELSE SubSeq(all, Len(all) - maxlen + 1, Len(all))

InitLogs ==
    /\ InitWatcher
    /\ fs = (join(local_dir, PathA) :> FileEntry(secs(1), LocalData(PathA)))
    /\ archives = <<>>
    /\ pre = [fs |-> fs, archives |-> archives, sync_state |-> 0]

watcherVars ==
    <<fs, flagVars, remoteVars, attrVars, th, timers, pre, calls, writes, probe>>

\* StreamedLogs(reactor, maxlen) is constructed
logs_init(maxlen) ==
    /\ logs = StreamedLogs(DefaultMaxlen)
    /\ logs' = [StreamedLogs(maxlen) EXCEPT !.last = "made"]
    /\ UNCHANGED <<watcherVars, bridge>>

\* an onMessage that has no branch for binary-mode messages
onMessage_takes_binary(payload, isBinary) ==
    /\ Len(logs.arrived) < MaxMessages
    /\ logs' = [logs EXCEPT
                  !.arrived = Append(@, [payload |-> payload, isBinary |-> isBinary]),
                  !.buffer = append(@, logs.maxlen, payload),
                  !.last = "onMessage"]
    /\ UNCHANGED <<watcherVars, bridge>>
\* TahoeLogReader.onMessage(payload, isBinary)
onMessage(payload, isBinary) ==
    /\ Len(logs.arrived) < MaxMessages
    /\ logs' = [logs EXCEPT
                  !.arrived = Append(@, [payload |-> payload, isBinary |-> isBinary]),
                  !.buffer = IF isBinary THEN @
                             ELSE append(@, logs.maxlen, payload),
                  !.last = "onMessage"]
    /\ UNCHANGED <<watcherVars, bridge>>

\* StreamedLogs.get_streamed_log_messages()
get_streamed_log_messages ==
    /\ logs' = [logs EXCEPT
                  !.out = [i \in 1..Len(logs.buffer) |-> decode(logs.buffer[i])],
                  !.last = "get"]
    /\ UNCHANGED <<watcherVars, bridge>>

\* StreamedLogs.start(nodeurl, api_token) without "if not self.running"
logs_start_unguarded(valid) ==
    /\ logs.made < MaxServices
    /\ logs' = IF ~valid THEN [logs EXCEPT !.last = "start raised"]
               ELSE [logs EXCEPT !.client_service = logs.made + 1,
                                 !.services = @ \cup {logs.made + 1},
                                 !.made = @ + 1,
                                 !.running = TRUE,
                                 !.last = "started"]
    /\ UNCHANGED <<watcherVars, bridge>>
\* StreamedLogs.start(nodeurl, api_token); valid: hyperlink parses nodeurl
logs_start(valid) ==
    /\ logs.made < MaxServices
    /\ logs' = IF logs.running THEN [logs EXCEPT !.last = "start ignored"]
               ELSE IF ~valid THEN [logs EXCEPT !.last = "start raised"]
               ELSE [logs EXCEPT !.client_service = logs.made + 1,
                                 !.services = @ \cup {logs.made + 1},
                                 !.made = @ + 1,
                                 !.running = TRUE,
                                 !.last = "started"]
    /\ UNCHANGED <<watcherVars, bridge>>

\* StreamedLogs.stop()
logs_stop ==
    /\ logs' = IF ~logs.running THEN [logs EXCEPT !.last = "stop ignored"]
               ELSE [logs EXCEPT !.services = @ \ {logs.client_service},
                                 !.client_service = 0,
                                 !.running = FALSE,
                                 !.last = "stopped"]
    /\ UNCHANGED <<watcherVars, bridge>>

NextLogs ==
    \/ \E maxlen \in Maxlens : logs_init(maxlen)
    \/ \E payload \in Payloads, isBinary \in BOOLEAN : onMessage(payload, isBinary)
    \/ get_streamed_log_messages
    \/ \E valid \in BOOLEAN : logs_start(valid)
    \/ logs_stop
SpecLogs == InitLogs /\ [][NextLogs]_vars

\* the text-mode payloads among the first n messages received, in their order
RECURSIVE TextOf(_, _)
TextOf(arrived, n) ==
    IF n = 0 THEN <<>>
    ELSE IF arrived[n].isBinary THEN TextOf(arrived, n - 1)
    ELSE Append(TextOf(arrived, n - 1), arrived[n].payload)
Retained ==
    LET text == TextOf(logs.arrived, Len(logs.arrived))
        keep == IF Len(text) <= logs.maxlen THEN Len(text) ELSE logs.maxlen
    IN  SubSeq(text, Len(text) - keep + 1, Len(text))

\* C36: the buffer holds at most maxlen messages (2,000,000 when none is
\* given): the latest text-mode messages received, in the order of their
\* arrival, the oldest having gone first and no binary-mode message among
\* them; get_streamed_log_messages returns those, decoded, in that order.
C36_BufferBounded ==
    /\ DefaultMaxlen = 2000000
    /\ Len(logs.buffer) <= logs.maxlen
    /\ logs.buffer = Retained
    /\ logs.last = "get" =>
          /\ Len(logs.out) = Len(Retained)
          /\ \A i \in 1..Len(Retained) : logs.out[i] = decode(Retained[i])
\* a full buffer of one message has taken a later message and dropped the
\* earlier one, a binary-mode message has come too, and the buffer was read
C36_Witness ==
    /\ logs.maxlen = 1
    /\ Len(logs.arrived) = 3
    /\ \E i \in 1..3 : logs.arrived[i].isBinary
    /\ \E i, j \in 1..3 :
          /\ i < j /\ ~logs.arrived[i].isBinary /\ ~logs.arrived[j].isBinary
          /\ logs.arrived[i].payload # logs.arrived[j].payload
    /\ logs.last = "get" /\ logs.out = <<<<97, 233>>>>

\* C37: a running service has exactly one client service, the one that
\* _client_service names; a stopped one has none and _client_service is None;
\* start changes nothing of a running service and stop nothing of a stopped
\* one; neither touches the message buffer.
C37_StartStop ==
    /\ [](IF logs.running
           THEN logs.client_service # 0 /\ logs.services = {logs.client_service}
           ELSE logs.client_service = 0 /\ logs.services = {})
    /\ [][\A valid \in BOOLEAN :
            (logs_start(valid) /\ logs.running)
                => logs' = [logs EXCEPT !.last = logs'.last]]_vars
    /\ [][(logs_stop /\ ~logs.running)
                => logs' = [logs EXCEPT !.last = logs'.last]]_vars
    /\ [][(logs_stop \/ \E valid \in BOOLEAN : logs_start(valid))
                => logs'.buffer = logs.buffer]_vars
\* started, stopped and started again with messages in the buffer, then a
\* start that was ignored
C37_Witness ==
    /\ logs.running /\ logs.made = 2 /\ logs.last = "start ignored"
    /\ logs.buffer # <<>>

\* ------------------------------------------------------------------ Bridge
MaxPorts == 4
MaxStops == 2
\* the TCP port numbers of the machine
PortNumbers == {1, 2}

InitBridge == InitLogs

\* Bridge.start(nodeurl, port) up to the yield: the port number is the one
\* that bridge.url holds, else the one given, else (0) a free one, which is
\* then written to bridge.url; listen() raises CannotListenError when a port
\* that listens is bound to that number
bridge_start(port) ==
    /\ bridge.made < MaxPorts
    /\ IF bridge.proxy # 0 /\ bridge.proxy \in bridge.listening
       THEN bridge' = [bridge EXCEPT !.last = "start ignored"]
       ELSE \E free \in PortNumbers :
            LET number == IF bridge.urlfile # 0 THEN bridge.urlfile
                          ELSE IF port # 0 THEN port ELSE free
                url == [bridge EXCEPT !.urlfile = number]
            IN  /\ bridge.urlfile = 0 /\ port = 0
                    => \A n \in bridge.listening : bridge.ports[n] # free
                /\ bridge' =
                     IF \E n \in bridge.listening : bridge.ports[n] = number
                     THEN [url EXCEPT !.last = "start raised"]
                     ELSE [url EXCEPT !.made = @ + 1,
                                      !.ports = Append(@, number),
                                      !.listening = @ \cup {bridge.made + 1},
                                      !.pending = @ \cup {bridge.made + 1},
                                      !.last = "start listening"]
    /\ UNCHANGED <<watcherVars, logs>>

\* Bridge.start from the yield on: self.proxy = (the port that listens),
\* self.address = (its address)
bridge_start_resume(n) ==
    /\ n \in bridge.pending
    /\ bridge' = [bridge EXCEPT !.proxy = n, !.address = bridge.ports[n],
                                !.pending = @ \ {n},
                                !.last = "started"]
    /\ UNCHANGED <<watcherVars, logs>>

\* Bridge.stop() up to the yield: stopListening() schedules connectionLost
bridge_stop ==
    /\ bridge.closing + bridge.stale < MaxStops
    /\ bridge' =
         IF bridge.proxy = 0 \/ bridge.proxy \notin bridge.listening
         THEN [bridge EXCEPT !.last = "stop ignored"]
         ELSE [bridge EXCEPT !.closing = @ + 1, !.last = "stop closing"]
    /\ UNCHANGED <<watcherVars, logs>>

\* a stop() that does not reset self.proxy after the port has closed
port_closes_keeps_proxy ==
    /\ bridge.closing > 0
    /\ bridge' = [bridge EXCEPT !.listening = @ \ {bridge.proxy},
                                !.closing = 0,
                                !.stale = @ + bridge.closing - 1,
                                !.last = "stopped"]
    /\ UNCHANGED <<watcherVars, logs>>
\* the first connectionLost of the port: connected = False, the socket is
\* closed and the Deferred of stopListening() fires, so Bridge.stop goes on
\* from the yield in the same reactor call: self.proxy = None
port_closes ==
    /\ bridge.closing > 0
    /\ bridge' = [bridge EXCEPT !.listening = @ \ {bridge.proxy},
                                !.proxy = 0,
                                !.closing = 0,
                                !.stale = @ + bridge.closing - 1,
                                !.last = "stopped"]
    /\ UNCHANGED <<watcherVars, logs>>

\* a later connectionLost of a port that has closed: it raises (the socket
\* is gone), stopListening()'s Deferred fails and Bridge.stop raises at the
\* yield, before self.proxy = None
stale_close ==
    /\ bridge.stale > 0
    /\ bridge' = [bridge EXCEPT !.stale = @ - 1, !.last = "stop raised"]
    /\ UNCHANGED <<watcherVars, logs>>

NextBridge ==
    \/ \E port \in {0} \cup PortNumbers : bridge_start(port)
    \/ \E n \in 1..MaxPorts : bridge_start_resume(n)
    \/ bridge_stop
    \/ port_closes
    \/ stale_close
SpecBridge == InitBridge /\ [][NextBridge]_vars

\* C38: start changes nothing while a proxy listens and stop nothing while
\* none does; when a stop has completed the proxy is None; at any moment at
\* most one port listens, and it is the bridge's proxy unless the start that
\* made it has yet to return.
C38_OneProxy ==
    /\ [](Cardinality(bridge.listening) <= 1)
    /\ [](bridge.pending = {} => bridge.listening \subseteq {bridge.proxy})
    /\ [](bridge.last = "stopped" => bridge.proxy = 0)
    /\ [][((\E port \in {0} \cup PortNumbers : bridge_start(port))
                /\ bridge.proxy \in bridge.listening)
              => bridge' = [bridge EXCEPT !.last = "start ignored"]]_vars
    /\ [][(bridge_stop /\ bridge.proxy \notin bridge.listening)
              => bridge' = [bridge EXCEPT !.last = "stop ignored"]]_vars
\* two stops of the first proxy were under way, the port closed, a second
\* proxy was started and the later stop then ended without touching it
C38_Witness ==
    /\ bridge.made = 2 /\ bridge.proxy = 2 /\ bridge.listening = {2}
    /\ bridge.last = "stop raised"

====
